---- MODULE Spec2Model ----
(***************************************************************************)
(* Hybrid-rendering gateway of angular-ssr-demo.                           *)
(*                                                                         *)
(*  - server.ts: the catch-all document handler app.get('**'), which       *)
(*    either serves the static shell (DISABLE_SSR === 'true') or calls     *)
(*    commonEngine.render and answers with its html or forwards its error. *)
(*  - data.service.ts: DataService.getProducts / getAboutInfo, the         *)
(*    fetch-with-cache facade over TransferState.                          *)
(*  - ProductsComponent / AboutComponent: the callers (ngOnInit).           *)
(*                                                                         *)
(* A context is one running application instance: context r (r \in Req) is *)
(* the server-side application of the render of request r, context Browser *)
(* is the application running in the browser that loaded a served document.*)
(***************************************************************************)
EXTENDS Integers, Sequences, FiniteSets, TLC

\* ---- bounds of the model ----
NumReq   == 2      \* document requests sent to the server
MaxReads == 1      \* reads of the facade by consumers other than ngOnInit
MaxNav   == 1      \* client-side navigations per loaded document
MaxTime  == 2      \* distinct timestamps the clock can show

Browser == 0
Req     == 1..NumReq
Ctx     == Req \cup {Browser}
Times   == 1..MaxTime

\* ---- MODEL: keys, values ----

PRODUCTS_KEY == "products"
ABOUT_KEY    == "about"
Keys         == {PRODUCTS_KEY, ABOUT_KEY}

\* A value is a JSON payload; the three fields cover Product[] (items) and
\* AboutInfo (title, lastUpdated).  lastUpdated 0 stands for "no timestamp".
Value(title, items, stamp) == [title |-> title, items |-> items, lastUpdated |-> stamp]

\* res.json(products): the six products of the mock API, by id
ProductsPayload == Value("", <<1, 2, 3, 4, 5, 6>>, 0)
\* res.json(aboutInfo) with lastUpdated: new Date().toISOString()
AboutPayload(t) == Value("About Angular SSR Demo", <<>>, t)

\* what a successful GET of the resource behind key k may deliver
ApiValues(k) == IF k = PRODUCTS_KEY THEN {ProductsPayload}
                ELSE {AboutPayload(t) : t \in Times}

\* the second argument of transferState.get in the cached branch
\* ([] for products, {title: '', content: '', lastUpdated: ''} for about)
GetDefault(k) == Value("", <<>>, 0)

\* the value catchError substitutes: of([]) / of({title: 'About', ...})
ErrorFallbacks(k) == IF k = PRODUCTS_KEY THEN {Value("", <<>>, 0)}
                     ELSE {Value("About", <<>>, t) : t \in Times}

\* ---- MODEL: TransferState ----

\* no value (undefined)
NoValue == Value("-", <<>>, 0)

EmptyStore == [k \in {} |-> ProductsPayload]
hasKey(st, k) == k \in DOMAIN st
\* a get that ignores its second argument: an absent key reads as no value
getNoFallback(st, k, fallback) == IF k \in DOMAIN st THEN st[k] ELSE NoValue
get(st, k, fallback) == IF k \in DOMAIN st THEN st[k] ELSE fallback
set(st, k, v) == [x \in (DOMAIN st) \cup {k} |-> IF x = k THEN v ELSE st[x]]

\* TransferState.toJson(): the entries in key order, each value as JSON text
KeyOrder == <<ABOUT_KEY, PRODUCTS_KEY>>
\* an encoding that loses the elements of an array
EncodeValueLossy(v) == <<v.title, <<>>, v.lastUpdated>>
EncodeValue(v) == <<v.title, v.items, v.lastUpdated>>
DecodeValue(t) == Value(t[1], t[2], t[3])
RECURSIVE SerializeFrom(_, _)
SerializeFrom(st, i) ==
    IF i > Len(KeyOrder) THEN <<>>
    ELSE IF hasKey(st, KeyOrder[i])
         THEN <<[key |-> KeyOrder[i], json |-> EncodeValue(st[KeyOrder[i]])]>>
              \o SerializeFrom(st, i + 1)
         ELSE SerializeFrom(st, i + 1)
Serialize(st) == SerializeFrom(st, 1)
RECURSIVE Deserialize(_)
Deserialize(doc) ==
    IF doc = <<>> THEN EmptyStore
    ELSE set(Deserialize(Tail(doc)), Head(doc).key, DecodeValue(Head(doc).json))

\* the values that occur in the program, and the stores made of them
AllValues == {GetDefault(k) : k \in Keys}
             \cup UNION {ApiValues(k) : k \in Keys}
             \cup UNION {ErrorFallbacks(k) : k \in Keys}
AllStores == {st \in UNION {[D -> AllValues] : D \in SUBSET Keys} :
                 \A k \in DOMAIN st : st[k] \in ApiValues(k)}
\* a get(key, fallback) under observation, before it is made
NoProbe == [store |-> EmptyStore, key |-> "", fallback |-> NoValue,
            called |-> FALSE, result |-> NoValue, after |-> EmptyStore]

\* ---- MODEL: observables returned by the facade ----

NoObs   == [kind |-> "none", key |-> "", val |-> NoValue]
\* of(v): emits v to each subscriber at once, no network
OfObs(k, v) == [kind |-> "of", key |-> k, val |-> v]
\* http.get(url).pipe(tap, catchError): cold, one GET per subscription
HttpObs(k)  == [kind |-> "http", key |-> k, val |-> NoValue]

\* FetchResult tags: where a delivered value came from
Cached(v)   == [val |-> v, src |-> "Cached"]
Live(v)     == [val |-> v, src |-> "Live"]
Fallback(v) == [val |-> v, src |-> "Fallback"]
ErrorOut    == [val |-> NoValue, src |-> "Error"]

\* a facade that never looks into the store
FetchNoCache(st, k) == HttpObs(k)

\* the body shared by getProducts and getAboutInfo
FetchWithCache(st, k) ==
    IF hasKey(st, k) THEN OfObs(k, get(st, k, GetDefault(k))) ELSE HttpObs(k)
getProducts(st)  == FetchWithCache(st, PRODUCTS_KEY)
getAboutInfo(st) == FetchWithCache(st, ABOUT_KEY)
Facade(st, k) == IF k = PRODUCTS_KEY THEN getProducts(st) ELSE getAboutInfo(st)

isPlatformServer(c) == c \in Req

\* a tap that forgets to store / a tap that stores on every platform
TapSkip(st, c, k, v) == st
TapAlways(st, c, k, v) == set(st, k, v)

\* tap(v => { if (isPlatformServer(...)) transferState.set(KEY, v) })
Tap(st, c, k, v) == IF isPlatformServer(c) THEN set(st, k, v) ELSE st

\* a facade without catchError: the failure reaches the subscriber
CatchErrorRethrow(k) == {ErrorOut}

\* catchError(error => of(fallback)): what the subscriber receives on failure
CatchError(k) == {Fallback(f) : f \in ErrorFallbacks(k)}

\* a catchError handler that also caches the fallback under the key
OnFetchErrorCache(st, c, k, f) == IF isPlatformServer(c) THEN set(st, k, f) ELSE st
\* what the catchError handler does to the store: console.error and
\* return of(fallback), no transferState call
OnFetchError(st, c, k, f) == st

\* ---- MODEL: one application instance ----

\* the observer of the current ProductsComponent, the observer of a
\* ProductsComponent that was navigated away from (it is never
\* unsubscribed), any other subscriber
Subscribers == {"comp", "old", "plain"}
NoPending == [k \in Keys |-> [s \in Subscribers |-> 0]]
Zero      == [k \in Keys |-> 0]

\* apiWait: GETs of the facade that an API handler of this process accepted
\* and whose timer is armed; docHits: GETs that the document handler got
NewApp == [route |-> "none", field |-> NoObs, pend |-> NoPending, net |-> Zero,
           ok |-> Zero, fail |-> Zero, got |-> [k \in Keys |-> {}],
           calls |-> Zero, unhandled |-> FALSE,
           apiWait |-> NoPending, docHits |-> Zero,
           loading |-> TRUE, error |-> "null", compGot |-> {}]

\* the application is destroyed when its render ends; the counts of network
\* calls it made (the ledger of the backing API) remain
Destroyed(a) == [NewApp EXCEPT !.net = a.net, !.ok = a.ok, !.fail = a.fail,
                                !.docHits = a.docHits]

\* loading, error: the fields of the current ProductsComponent (loading =
\* true, error = null in a new instance); compGot: what its observer received
\* the next / error callbacks of ProductsComponent's observer
Observer(a, out) ==
    [a EXCEPT !.loading = FALSE,
              !.error = IF out.src = "Error" THEN "Failed to load products" ELSE "null",
              !.compGot = @ \cup {out}]

\* a notification reaches a subscriber; an error notification reaching a
\* subscriber without an error callback is an unhandled error
Deliver(a, k, out, sub) ==
    LET b == [a EXCEPT !.got[k] = @ \cup {out},
                       !.unhandled = @ \/ (out.src = "Error" /\ sub = "plain")]
    IN  IF sub = "comp" THEN Observer(b, out) ELSE b

\* obs.subscribe(...)
Subscribe(a, obs, sub) ==
    IF obs.kind = "of" THEN Deliver(a, obs.key, Cached(obs.val), sub)
    ELSE [a EXCEPT !.net[obs.key] = @ + 1, !.pend[obs.key][sub] = @ + 1]

\* the routes table: path -> page component ('' and '**' redirect to /home)
Route(p) == IF p = <<"/", "products">> THEN "products"
            ELSE IF p = <<"/", "about">> THEN "about"
            ELSE "home"

\* ngOnInit of the routed page component, on a new component instance
ngOnInit(a, st, rt) ==
    LET b == [a EXCEPT !.route = rt,
                       !.loading = TRUE, !.error = "null", !.compGot = {},
                       !.pend = [k \in Keys |->
                                   [@[k] EXCEPT !["old"] = @ + a.pend[k]["comp"],
                                                !["comp"] = 0]]] IN
    IF rt = "products"
    THEN LET o == getProducts(st) IN
         Subscribe([b EXCEPT !.field = o, !.calls[PRODUCTS_KEY] = @ + 1], o, "comp")
    ELSE IF rt = "about"
    THEN [b EXCEPT !.field = getAboutInfo(st), !.calls[ABOUT_KEY] = @ + 1]
    ELSE [b EXCEPT !.field = NoObs]

\* ---- MODEL: server.ts, the catch-all document handler ----

StaticExts == {"js", "css", "ico", "png", "jpg", "jpeg", "gif", "svg",
               "woff", "woff2", "ttf", "eot"}
\* a pattern without the end anchor: an extension anywhere in the path
IsStaticFileAnywhere(p) ==
    \E i \in 1..(Len(p) - 1) : p[i] = "." /\ p[i + 1] \in StaticExts
\* req.path.match(/\.(js|css|...)$/), on a path split into tokens
IsStaticFile(p) == Len(p) >= 2 /\ p[Len(p) - 1] = "." /\ p[Len(p)] \in StaticExts

Paths == {<<"/", "products">>, <<"/", "about">>, <<"/", "home">>,
          <<"/", "main", ".", "js">>}

\* `${this.apiBaseUrl}/products`, `${this.apiBaseUrl}/about`
ApiPath(k) == <<"/", "api", "/", k>>

\* a route table with the catch-all handler registered first
DispatchCatchAllFirst(p, isFile) == "catchAll"
\* the route table in registration order: the three API routes,
\* express.static (which answers for files that exist), the catch-all handler
Dispatch(p, isFile) ==
    IF p = <<"/", "api", "/", "products">> THEN "products"
    ELSE IF p = <<"/", "api", "/", "about">> THEN "about"
    ELSE IF p = <<"/", "api", "/", "health">> THEN "health"
    ELSE IF isFile THEN "static"
    ELSE "catchAll"

\* process.env['DISABLE_SSR']
EnvValues == {"unset", "true", "false", "1"}
\* if (process.env['DISABLE_SSR']): any set value, 'false' too, disables
disableSSRTruthy(v) == v # "unset"
disableSSR(v) == v = "true"

\* process.env['PORT']
PortValues == {"unset", "8080", "abc"}
\* const port = process.env['PORT'] || 4000
Port(v) == IF v = "unset" THEN "4000" ELSE v

\* the server before the main-module block ran
NotStarted == [state |-> "launched", port |-> "none", disableSSR |-> FALSE]
\* if (isMainModule(...)) { port, disableSSR, app.listen(port, ...) }: bound
\* tells whether the socket could be bound
Main(pv, ev, bound) ==
    [state |-> IF bound THEN "listening" ELSE "failed",
     port |-> Port(pv), disableSSR |-> disableSSR(ev)]

\* a handler that uses the mode the startup block computed
ModeFrozen(current, atBoot) == atBoot
\* const disableSSR = process.env['DISABLE_SSR'] === 'true', in the handler
Mode(current, atBoot) == disableSSR(current)

\* what the handler has sent for a request: res.send(html), res.sendFile,
\* next(err), next()
NoResp == [html |-> 0, shell |-> 0, err |-> 0, pass |-> 0]

\* .then((html) => res.send(html))
RenderThen(rs) == [rs EXCEPT !.html = @ + 1]
\* a catch handler that degrades to the static shell
RenderCatchShell(rs) == [rs EXCEPT !.shell = @ + 1]
\* .catch((err) => { console.error(...); next(err); })
RenderCatch(rs) == [rs EXCEPT !.err = @ + 1]

\* a first callback that forwards the error and still tries index.html
SendFileCallbackBoth(ph, rs, sent) ==
    IF sent THEN [phase |-> "Done", resp |-> [rs EXCEPT !.shell = @ + 1]]
    ELSE [phase |-> IF ph = "ShellCsr" THEN "ShellIndex" ELSE "Done",
          resp |-> [rs EXCEPT !.err = @ + 1]]

\* the callbacks of res.sendFile: [phase, resp] after the callback ran
SendFileCallback(ph, rs, sent) ==
    IF sent THEN [phase |-> "Done", resp |-> [rs EXCEPT !.shell = @ + 1]]
    ELSE IF ph = "ShellCsr" THEN [phase |-> "ShellIndex", resp |-> rs]
    ELSE [phase |-> "Done", resp |-> [rs EXCEPT !.err = @ + 1]]

\* one TransferState shared by every render of the process
StoreOfShared(c) == IF c \in Req THEN CHOOSE r \in Req : TRUE ELSE c

\* each application instance injects its own TransferState
StoreOf(c) == c

VARIABLES env, portEnv, boot, probe, phase, path, toggle, renderCalls, resp, fault,
          doc, stores, app, origin, navs, reads

vars == <<env, portEnv, boot, probe, phase, path, toggle, renderCalls, resp, fault,
          doc, stores, app, origin, navs, reads>>
config == <<env, portEnv, boot, probe>>
server == <<phase, path, toggle, renderCalls, resp, fault, doc>>

Store(c) == stores[StoreOf(c)]

\* the process as launched: the environment is set, nothing has run
Launched ==
    /\ env \in EnvValues
    /\ portEnv \in PortValues
    /\ boot = NotStarted
    /\ probe = NoProbe
    /\ phase = [r \in Req |-> "new"]
    /\ path = [r \in Req |-> <<>>]
    /\ toggle = [r \in Req |-> "notread"]
    /\ renderCalls = [r \in Req |-> 0]
    /\ resp = [r \in Req |-> NoResp]
    /\ fault = [r \in Req |-> FALSE]
    /\ doc = [r \in Req |-> <<>>]
    /\ stores = [c \in Ctx |-> EmptyStore]
    /\ app = [c \in Ctx |-> NewApp]
    /\ origin = 0
    /\ navs = 0
    /\ reads = 0

\* the server started without PORT set and listens on the default port
Init ==
    /\ env \in EnvValues
    /\ portEnv = "unset"
    /\ boot = Main(portEnv, env, TRUE)
    /\ probe = NoProbe
    /\ phase = [r \in Req |-> "new"]
    /\ path = [r \in Req |-> <<>>]
    /\ toggle = [r \in Req |-> "notread"]
    /\ renderCalls = [r \in Req |-> 0]
    /\ resp = [r \in Req |-> NoResp]
    /\ fault = [r \in Req |-> FALSE]
    /\ doc = [r \in Req |-> <<>>]
    /\ stores = [c \in Ctx |-> EmptyStore]
    /\ app = [c \in Ctx |-> NewApp]
    /\ origin = 0
    /\ navs = 0
    /\ reads = 0

\* a TransferState in any state the facade can bring it to, about to be read
\* with get(key, fallback)
InitGet ==
    /\ env = "unset"
    /\ portEnv = "unset"
    /\ boot = Main(portEnv, env, TRUE)
    /\ \E st \in AllStores, k \in Keys, f \in AllValues :
          probe = [store |-> st, key |-> k, fallback |-> f,
                   called |-> FALSE, result |-> NoValue, after |-> st]
    /\ phase = [r \in Req |-> "new"]
    /\ path = [r \in Req |-> <<>>]
    /\ toggle = [r \in Req |-> "notread"]
    /\ renderCalls = [r \in Req |-> 0]
    /\ resp = [r \in Req |-> NoResp]
    /\ fault = [r \in Req |-> FALSE]
    /\ doc = [r \in Req |-> <<>>]
    /\ stores = [c \in Ctx |-> EmptyStore]
    /\ app = [c \in Ctx |-> NewApp]
    /\ origin = 0
    /\ navs = 0
    /\ reads = 0

\* transferState.get(key, fallback): the store is only read
GetCall ==
    /\ ~probe.called
    /\ probe' = [probe EXCEPT !.called = TRUE,
                              !.result = get(probe.store, probe.key, probe.fallback),
                              !.after = probe.store]
    /\ UNCHANGED <<env, portEnv, boot, server, stores, app, origin, navs, reads>>

\* the main-module block runs: app.listen(port), which binds or fails
Startup(bound) ==
    /\ boot.state = "launched"
    /\ boot' = Main(portEnv, env, bound)
    /\ UNCHANGED <<env, portEnv, probe, server, stores, app, origin, navs, reads>>

\* process.env['DISABLE_SSR'] is given another value while the process runs
SetEnv(v) ==
    /\ boot.state = "listening"
    /\ v # env
    /\ env' = v
    /\ UNCHANGED <<portEnv, boot, probe, server, stores, app, origin, navs, reads>>

\* app.get('**', (req, res, next) => ...) up to its first asynchronous call
Handle(r, p) ==
    /\ boot.state = "listening"
    /\ Dispatch(p, FALSE) = "catchAll"
    /\ phase[r] = "new"
    /\ path' = [path EXCEPT ![r] = p]
    /\ IF IsStaticFile(p)
       THEN /\ phase' = [phase EXCEPT ![r] = "Passed"]
            /\ resp' = [resp EXCEPT ![r].pass = @ + 1]
            /\ UNCHANGED <<toggle, renderCalls>>
       ELSE /\ toggle' = [toggle EXCEPT ![r] = env]
            /\ IF Mode(env, boot.disableSSR)
               THEN /\ phase' = [phase EXCEPT ![r] = "ShellCsr"]
                    /\ UNCHANGED renderCalls
               ELSE /\ phase' = [phase EXCEPT ![r] = "Rendering"]
                    /\ renderCalls' = [renderCalls EXCEPT ![r] = @ + 1]
            /\ UNCHANGED resp
    /\ UNCHANGED <<config, fault, doc, stores, app, origin, navs, reads>>

\* res.sendFile finished: index.csr.html first, index.html as the fallback
SendFileDone(r, sent) ==
    /\ phase[r] \in {"ShellCsr", "ShellIndex"}
    /\ LET n == SendFileCallback(phase[r], resp[r], sent) IN
       /\ phase' = [phase EXCEPT ![r] = n.phase]
       /\ resp' = [resp EXCEPT ![r] = n.resp]
    /\ UNCHANGED <<config, path, toggle, renderCalls, fault, doc, stores, app, origin, navs, reads>>

Bootstrapped(r) == app[r].route # "none"
Rendering(r) == phase[r] = "Rendering" /\ Bootstrapped(r)
NoPendingIn(a) == \A k \in Keys, s \in Subscribers : a.pend[k][s] = 0

\* commonEngine.render: bootstrap the application with a fresh TransferState,
\* route to the request url, run the page component's ngOnInit
RenderBootstrap(r) ==
    /\ phase[r] = "Rendering" /\ ~Bootstrapped(r)
    /\ app' = [app EXCEPT ![r] = ngOnInit(NewApp, Store(r), Route(path[r]))]
    /\ UNCHANGED <<config, server, stores, origin, navs, reads>>

\* commonEngine.render resolves once the application is stable (no pending
\* request): the store is serialized into the document, then res.send(html)
RenderDone(r) ==
    /\ Rendering(r) /\ NoPendingIn(app[r]) /\ ~app[r].unhandled
    /\ doc' = [doc EXCEPT ![r] = Serialize(Store(r))]
    /\ resp' = [resp EXCEPT ![r] = RenderThen(@)]
    /\ phase' = [phase EXCEPT ![r] = "Done"]
    /\ app' = [app EXCEPT ![r] = Destroyed(@)]
    /\ UNCHANGED <<config, path, toggle, renderCalls, fault, stores, origin, navs, reads>>

\* commonEngine.render rejects: the bootstrap threw (a fault of the
\* environment), or an error left the application unhandled
RenderFail(r) ==
    /\ phase[r] = "Rendering"
    /\ fault' = [fault EXCEPT ![r] = ~(Bootstrapped(r) /\ app[r].unhandled)]
    /\ resp' = [resp EXCEPT ![r] = RenderCatch(@)]
    /\ phase' = [phase EXCEPT ![r] = "Done"]
    /\ app' = [app EXCEPT ![r] = Destroyed(@)]
    /\ UNCHANGED <<config, path, toggle, renderCalls, doc, stores, origin, navs, reads>>

\* an application instance that is running
Active(c) == IF isPlatformServer(c) THEN Rendering(c) ELSE app[c].route # "none"

\* a GET issued by the facade completes: success runs tap and delivers the
\* value, failure runs catchError
FetchDone(c, k, s, success) ==
    /\ Active(c)
    /\ app[c].pend[k][s] > 0
    /\ LET a == [app[c] EXCEPT !.pend[k][s] = @ - 1] IN
       IF success
       THEN \E v \in ApiValues(k) :
              /\ stores' = [stores EXCEPT ![StoreOf(c)] = Tap(@, c, k, v)]
              /\ app' = [app EXCEPT ![c] = Deliver([a EXCEPT !.ok[k] = @ + 1], k, Live(v), s)]
       ELSE \E out \in CatchError(k) :
              /\ stores' = [stores EXCEPT ![StoreOf(c)] = OnFetchError(@, c, k, out.val)]
              /\ app' = [app EXCEPT ![c] = Deliver([a EXCEPT !.fail[k] = @ + 1], k, out, s)]
    /\ UNCHANGED <<config, server, origin, navs, reads>>

\* the GET that the facade of render r sent to its own process is routed.
\* The API handler arms its timer (setTimeout(..., 100)); the document
\* handler would answer with a document, which is no JSON body: the facade
\* takes that as a failure
ApiRoute(r, k, s) ==
    /\ Rendering(r)
    /\ app[r].pend[k][s] > app[r].apiWait[k][s]
    /\ IF Dispatch(ApiPath(k), FALSE) = k
       THEN app' = [app EXCEPT ![r].apiWait[k][s] = @ + 1]
       ELSE \E out \in CatchError(k) :
              app' = [app EXCEPT ![r] =
                        Deliver([@ EXCEPT !.pend[k][s] = @ - 1,
                                          !.fail[k] = @ + 1,
                                          !.docHits[k] = @ + 1], k, out, s)]
    /\ UNCHANGED <<config, server, stores, origin, navs, reads>>

\* the timer of the API handler fires: res.json(payload); the facade of
\* render r receives the body, tap runs, the subscriber gets the value
ApiRespond(r, k, s) ==
    /\ Rendering(r)
    /\ app[r].apiWait[k][s] > 0 /\ app[r].pend[k][s] > 0
    /\ \E v \in ApiValues(k) :
          /\ stores' = [stores EXCEPT ![StoreOf(r)] = Tap(@, r, k, v)]
          /\ app' = [app EXCEPT ![r] =
                       Deliver([@ EXCEPT !.pend[k][s] = @ - 1,
                                         !.apiWait[k][s] = @ - 1,
                                         !.ok[k] = @ + 1], k, Live(v), s)]
    /\ UNCHANGED <<config, server, origin, navs, reads>>

\* the browser loads the document served for request r: a new client
\* application, whose TransferState is read from the document (the static
\* shell carries none)
ClientLoad(r) ==
    /\ resp[r].html > 0 \/ resp[r].shell > 0
    /\ stores' = [stores EXCEPT ![StoreOf(Browser)] =
                    IF resp[r].html > 0 THEN Deserialize(doc[r]) ELSE EmptyStore]
    /\ app' = [app EXCEPT ![Browser] = NewApp]
    /\ origin' = r
    /\ navs' = 0
    /\ UNCHANGED <<config, server, reads>>

\* the client application bootstraps (hydrates) on the url of the document
\* and runs the page component's ngOnInit
ClientBootstrap ==
    /\ origin # 0
    /\ app[Browser].route = "none"
    /\ app' = [app EXCEPT ![Browser] = ngOnInit(@, Store(Browser), Route(path[origin]))]
    /\ UNCHANGED <<config, server, stores, origin, navs, reads>>

\* a router link is followed in the browser: a new page component
ClientNavigate(rt) ==
    /\ Active(Browser)
    /\ navs < MaxNav
    /\ rt # app[Browser].route
    /\ app' = [app EXCEPT ![Browser] = ngOnInit(@, Store(Browser), rt)]
    /\ navs' = navs + 1
    /\ UNCHANGED <<config, server, stores, origin, reads>>

\* another consumer in the same application calls the facade and subscribes
Reread(c, k) ==
    /\ Active(c)
    /\ reads < MaxReads
    /\ reads' = reads + 1
    /\ app' = [app EXCEPT ![c] =
                 Subscribe([@ EXCEPT !.calls[k] = @ + 1], Facade(Store(c), k), "plain")]
    /\ UNCHANGED <<config, server, stores, origin, navs>>

\* another subscription to the observable the page component holds
\* (products$, aboutInfo$)
Resubscribe(c) ==
    /\ Active(c)
    /\ reads < MaxReads
    /\ reads' = reads + 1
    /\ app[c].field # NoObs
    /\ app' = [app EXCEPT ![c] = Subscribe(@, @.field, "plain")]
    /\ UNCHANGED <<config, server, stores, origin, navs>>

Routes == {"products", "about", "home"}

\* what follows the arrival of a request inside the server process
ServerProgress ==
    \/ \E r \in Req, sent \in BOOLEAN : SendFileDone(r, sent)
    \/ \E r \in Req : RenderBootstrap(r)
    \/ \E r \in Req : RenderDone(r)
    \/ \E r \in Req : RenderFail(r)
    \/ \E r \in Req, k \in Keys, s \in Subscribers, ok \in BOOLEAN : FetchDone(r, k, s, ok)

\* what follows the arrival of a request, the browser included
Progress ==
    \/ \E r \in Req, sent \in BOOLEAN : SendFileDone(r, sent)
    \/ \E r \in Req : RenderBootstrap(r)
    \/ \E r \in Req : RenderDone(r)
    \/ \E r \in Req : RenderFail(r)
    \/ \E c \in Ctx, k \in Keys, s \in Subscribers, ok \in BOOLEAN : FetchDone(c, k, s, ok)
    \/ \E r \in Req : ClientLoad(r)
    \/ ClientBootstrap
    \/ \E rt \in Routes : ClientNavigate(rt)

\* further consumers of the facade in a running application
Consumers ==
    \/ \E c \in Ctx, k \in Keys : Reread(c, k)
    \/ \E c \in Ctx : Resubscribe(c)

First == {r \in Req : \A q \in Req : r <= q}

\* every request, every consumer
Next ==
    \/ \E r \in Req, p \in Paths : Handle(r, p)
    \/ Progress
    \/ Consumers

\* every request, the page components as the only consumers of the facade
NextApp ==
    \/ \E r \in Req, p \in Paths : Handle(r, p)
    \/ Progress

\* one request followed from its arrival into the browser, every consumer
NextOne ==
    \/ \E r \in First, p \in Paths : Handle(r, p)
    \/ Progress
    \/ Consumers

\* the process from its launch: startup, then requests
NextBoot ==
    \/ \E bound \in BOOLEAN : Startup(bound)
    \/ \E r \in Req, p \in Paths : Handle(r, p)
    \/ ServerProgress

\* a document path and a static-file path
TogglePaths == {<<"/", "products">>, <<"/", "main", ".", "js">>}

\* the running server while the toggle is changed between and during requests
NextEnv ==
    \/ \E v \in EnvValues : SetEnv(v)
    \/ \E r \in Req, p \in TogglePaths : Handle(r, p)
    \/ ServerProgress

Spec    == Init /\ [][Next]_vars
SpecApp == Init /\ [][NextApp]_vars
SpecOne == Init /\ [][NextOne]_vars
\* paths around the static-file pattern: an extension in the last place, an
\* extension before the last place, an unlisted extension, no extension
ClassPaths == {<<"/", "products">>,
               <<"/", "main", ".", "js">>,
               <<"/", "assets", "/", "logo", ".", "png">>,
               <<"/", "main", ".", "js", ".", "map">>,
               <<"/", "data", ".", "json">>,
               <<"/", "api", "/", "unknown">>}

\* the catch-all handler over these paths
NextClass ==
    \/ \E r \in Req, p \in ClassPaths : Handle(r, p)
    \/ ServerProgress

SpecClass == Init /\ [][NextClass]_vars
\* the steps the event loop owes a render in flight
RenderSteps(r) ==
    \/ RenderBootstrap(r)
    \/ \E k \in Keys, s \in Subscribers : ApiRoute(r, k, s)
    \/ \E k \in Keys, s \in Subscribers : ApiRespond(r, k, s)
    \/ RenderDone(r)

\* one request in the server, the facade's GETs served by the API routes of
\* the same process
NextApi ==
    \/ \E r \in First, p \in Paths : Handle(r, p)
    \/ \E r \in Req, sent \in BOOLEAN : SendFileDone(r, sent)
    \/ \E r \in Req : RenderSteps(r)
    \/ \E r \in Req : RenderFail(r)
    \/ \E r \in Req, k \in Keys, s \in Subscribers : FetchDone(r, k, s, FALSE)
    \/ \E r \in Req, k \in Keys : Reread(r, k)

\* the event loop runs every callback that is ready: the render is
\* asynchronous and blocks neither the API handlers nor their timers
SpecApi == Init /\ [][NextApi]_vars /\ \A r \in Req : WF_vars(RenderSteps(r))
SpecGet == InitGet /\ [][GetCall]_vars
SpecBoot == Launched /\ [][NextBoot]_vars
SpecEnv == Init /\ [][NextEnv]_vars

\* ---- CLAIMS ----

DocKeys(d) == {d[i].key : i \in 1..Len(d)}
ValuesOf(outs) == {o.val : o \in outs}
EmptyProducts == Value("", <<>>, 0)
Document(r) == phase[r] # "new" /\ ~IsStaticFile(path[r])

\* C1: exactly-once fetch across the server/client boundary.  When the
\* server-side fetch of key k succeeded in the render of request r, the
\* server made exactly one network call for k, k is in the store serialized
\* into the document, and the browser that loaded that document gets the
\* server's value from its facade calls for k with no network call of its own.
C1_ExactlyOnceAcrossBoundary ==
    \A r \in Req, k \in Keys :
        app[r].ok[k] >= 1 =>
            /\ app[r].net[k] = 1
            /\ resp[r].html > 0 => k \in DocKeys(doc[r])
            /\ origin = r =>
                  /\ app[Browser].net[k] = 0
                  /\ app[r].net[k] + app[Browser].net[k] = 1
                  /\ \A o \in app[Browser].got[k] : o = Cached(Store(r)[k])

C1_Witness ==
    \E r \in Req :
        /\ origin = r
        /\ app[r].ok[PRODUCTS_KEY] = 1 /\ app[r].net[PRODUCTS_KEY] = 1
        /\ app[Browser].calls[PRODUCTS_KEY] >= 1
        /\ app[Browser].got[PRODUCTS_KEY] = {Cached(ProductsPayload)}
        /\ app[Browser].net[PRODUCTS_KEY] = 0

\* C2: within one render pass a key is fetched from the network at most
\* once, whatever the number of reads, and every read of the key yields
\* the same value.
C2_OneCallPerPass ==
    \A r \in Req, k \in Keys :
        /\ app[r].net[k] <= 1
        /\ Cardinality(ValuesOf(app[r].got[k])) <= 1

\* C3: renders never share a store.  A render that has not bootstrapped yet
\* owns an empty store, and a key is in the store of render r, or is read
\* from it as a cached value, only if r itself fetched it successfully.
C3_StoreIsolation ==
    \A r \in Req :
        /\ (phase[r] \in {"new", "Rendering"} /\ ~Bootstrapped(r)) => Store(r) = EmptyStore
        /\ \A k \in Keys :
              /\ hasKey(Store(r), k) => app[r].ok[k] >= 1
              /\ (\E o \in app[r].got[k] : o.src = "Cached") => app[r].ok[k] >= 1

C3_Witness ==
    \E r, q \in Req :
        /\ r # q
        /\ Rendering(r) /\ Rendering(q)
        /\ app[r].route = "products" /\ app[q].route = "products"
        /\ hasKey(Store(r), PRODUCTS_KEY)
        /\ ~hasKey(Store(q), PRODUCTS_KEY)
        /\ app[q].net[PRODUCTS_KEY] = 1

\* C4: cache hit.  A facade call for a key the store already has returns
\* of(stored value), delivered as such to its subscriber, and starts no
\* network call, on the server and in the browser.
C4_CacheHit ==
    [][\A c \in Ctx, k \in Keys :
         (app'[c].calls[k] = app[c].calls[k] + 1 /\ hasKey(Store(c), k)) =>
             /\ app'[c].net = app[c].net
             /\ app'[c].pend[k] = app[c].pend[k]
             /\ stores' = stores
             /\ \/ app'[c].field = OfObs(k, Store(c)[k])
                \/ app'[c].got[k] = app[c].got[k] \cup {Cached(Store(c)[k])}
             /\ app'[c].got[k] \subseteq app[c].got[k] \cup {Cached(Store(c)[k])}]_vars

C4_Witness ==
    \E r \in Req, k \in Keys :
        /\ Rendering(r)
        /\ hasKey(Store(r), k)
        /\ Cached(Store(r)[k]) \in app[r].got[k]
        /\ app[r].calls[k] >= 1
        /\ app[r].net[k] = 1

\* C5: write policy of a successful live fetch.  On the server the fetched
\* value, the one delivered to the subscriber, is stored under the key of
\* the resource and no other entry changes; in the browser no store changes.
C5_WritePolicy ==
    [][\A c \in Ctx, k \in Keys :
         app'[c].ok[k] = app[c].ok[k] + 1 =>
             IF isPlatformServer(c)
             THEN /\ hasKey(stores'[StoreOf(c)], k)
                  /\ stores'[StoreOf(c)][k] \in ApiValues(k)
                  /\ Live(stores'[StoreOf(c)][k]) \in app'[c].got[k]
                  /\ app'[c].got[k] \subseteq
                       app[c].got[k] \cup {Live(stores'[StoreOf(c)][k])}
                  /\ \A j \in Keys \ {k} :
                        /\ hasKey(stores'[StoreOf(c)], j) <=> hasKey(Store(c), j)
                        /\ hasKey(Store(c), j) => stores'[StoreOf(c)][j] = Store(c)[j]
                  /\ \A d \in Ctx : StoreOf(d) # StoreOf(c) => stores'[StoreOf(d)] = Store(d)
             ELSE stores' = stores]_vars

C5_Witness ==
    \E r \in Req :
        /\ origin = r
        /\ app[r].ok[PRODUCTS_KEY] >= 1
        /\ hasKey(Store(r), PRODUCTS_KEY)
        /\ app[Browser].ok[ABOUT_KEY] >= 1
        /\ \E v \in ApiValues(ABOUT_KEY) : Live(v) \in app[Browser].got[ABOUT_KEY]
        /\ ~hasKey(Store(Browser), ABOUT_KEY)

\* C6: a failed fetch, on the server or in the browser, delivers the
\* fallback value (the empty list for products) as a normal notification,
\* never an error, and changes no store.
C6_FailureFallback ==
    [][\A c \in Ctx, k \in Keys :
         app'[c].fail[k] = app[c].fail[k] + 1 =>
             /\ stores' = stores
             /\ ~app'[c].unhandled
             /\ \A o \in app'[c].got[k] : o.src # "Error"
             /\ \E f \in ErrorFallbacks(k) :
                   app'[c].got[k] = app[c].got[k] \cup {Fallback(f)}
             /\ k = PRODUCTS_KEY => Fallback(EmptyProducts) \in app'[c].got[k]]_vars

C6_Witness ==
    /\ origin # 0
    /\ app[origin].fail[PRODUCTS_KEY] >= 1
    /\ app[Browser].fail[PRODUCTS_KEY] >= 1
    /\ app[Browser].got[PRODUCTS_KEY] = {Fallback(EmptyProducts)}
    /\ stores[StoreOf(Browser)] = EmptyStore

\* the response states of the document responder
ServerRendered(r) == resp[r].html > 0
StaticShell(r)    == resp[r].shell > 0
Error(r)          == resp[r].err > 0
Finished(r)       == phase[r] = "Done"
FetchFailed(r)    == \E k \in Keys : app[r].fail[k] >= 1

\* C7: a fetch failure inside the facade never fails the render.  No error
\* is left unhandled in a rendering application, a render ends in Error
\* only when the engine itself faulted, and a render with a failed fetch and
\* no such fault ends in ServerRendered.
C7_FetchFailureNotFatal ==
    \A r \in Req :
        /\ ~app[r].unhandled
        /\ (renderCalls[r] > 0 /\ Error(r)) => fault[r]
        /\ (Finished(r) /\ renderCalls[r] > 0 /\ FetchFailed(r) /\ ~fault[r]) =>
              (ServerRendered(r) /\ ~Error(r))
        /\ (Rendering(r) /\ FetchFailed(r) /\ NoPendingIn(app[r])) => ENABLED RenderDone(r)

C7_Witness ==
    \E r \in Req :
        /\ Finished(r)
        /\ app[r].fail[PRODUCTS_KEY] >= 1 /\ app[r].fail[ABOUT_KEY] >= 1
        /\ ServerRendered(r) /\ ~Error(r)

\* C8: a document request produces exactly one response.  At no time has it
\* been answered twice (rendered document, shell, error), and once its
\* handling has ended without an error exactly one of ServerRendered and
\* StaticShell was produced.
C8_ExactlyOneResponse ==
    \A r \in Req :
        Document(r) =>
            /\ resp[r].html + resp[r].shell + resp[r].err <= 1
            /\ resp[r].pass = 0
            /\ Finished(r) <=> resp[r].html + resp[r].shell + resp[r].err = 1
            /\ (Finished(r) /\ ~Error(r)) => (ServerRendered(r) # StaticShell(r))

C8_Witness ==
    \E r, q \in Req :
        /\ r # q
        /\ Finished(r) /\ Finished(q)
        /\ path[r] = <<"/", "products">> /\ path[q] = <<"/", "home">>
        /\ StaticShell(r) /\ ~ServerRendered(r) /\ ~Error(r)
        /\ Error(q) /\ ~StaticShell(q)

\* C9: a render failure ends the request in Error.  The engine is invoked at
\* most once per request, and a request whose render did not deliver a
\* document has the error response, and neither the shell nor a document.
C9_RenderFailureIsError ==
    \A r \in Req :
        /\ renderCalls[r] <= 1
        /\ (renderCalls[r] = 1 /\ Finished(r) /\ ~ServerRendered(r)) =>
              (resp[r].err = 1 /\ ~StaticShell(r))
        /\ (renderCalls[r] = 1 /\ fault[r]) =>
              (Finished(r) /\ resp[r].err = 1 /\ ~StaticShell(r) /\ ~ServerRendered(r))

C9_Witness ==
    \E r \in Req :
        /\ fault[r] /\ Finished(r) /\ renderCalls[r] = 1
        /\ app[r].ok[PRODUCTS_KEY] = 1
        /\ Error(r) /\ ~StaticShell(r) /\ ~ServerRendered(r)

\* C10: the toggle decides the responder.  With DISABLE_SSR read as 'true'
\* the engine is not invoked and no rendered document is sent; with it
\* unset or 'false' the engine is invoked for the document request, the
\* shell is never sent and a response without error is the rendered document.
C10_ModeDecidesResponder ==
    \A r \in Req :
        Document(r) =>
            /\ toggle[r] = "true" => (renderCalls[r] = 0 /\ ~ServerRendered(r))
            /\ toggle[r] \in {"unset", "false"} =>
                  /\ renderCalls[r] = 1
                  /\ ~StaticShell(r)
                  /\ (Finished(r) /\ ~Error(r)) => ServerRendered(r)

C10_Witness ==
    \E r \in Req :
        /\ toggle[r] = "false"
        /\ Finished(r) /\ ServerRendered(r)
        /\ renderCalls[r] = 1

\* C11: the mode of a request is the toggle as it is when the request is
\* handled.  The handling step sends the request to the shell responder
\* exactly when DISABLE_SSR is 'true' at that step, whatever it was at
\* startup or for earlier requests; a change of the toggle changes nothing
\* of any request, and a request in flight or ended keeps the responder of
\* the value read when it was handled.
C11_ModeReadPerRequest ==
    /\ [][\A r \in Req :
            /\ (phase[r] = "new" /\ phase'[r] # "new" /\ ~IsStaticFile(path'[r])) =>
                  /\ toggle'[r] = env
                  /\ phase'[r] = "ShellCsr" <=> env = "true"
                  /\ phase'[r] = "Rendering" <=> env # "true"
            /\ env' # env => server' = server]_vars
    /\ [](\A r \in Req :
            Document(r) =>
               /\ toggle[r] = "true" => (renderCalls[r] = 0 /\ ~ServerRendered(r))
               /\ toggle[r] # "true" => (renderCalls[r] = 1 /\ ~StaticShell(r)))

C11_Witness ==
    \E r, q \in Req :
        /\ r # q
        /\ boot.state = "listening" /\ ~boot.disableSSR
        /\ toggle[r] = "true" /\ Finished(r) /\ StaticShell(r)
        /\ toggle[q] = "false" /\ env = "true"
        /\ Finished(q) /\ ServerRendered(q) /\ ~StaticShell(q)

\* C12: ConfigError.  A toggle that is neither unset nor 'true' nor 'false',
\* or a PORT that is not an integer, found at boot keeps the server from
\* listening: it never handles a request.
C12_ConfigErrorFatal ==
    (env \notin {"unset", "true", "false"} \/ portEnv \notin {"unset", "8080"}) =>
        /\ boot.state # "listening"
        /\ \A r \in Req : phase[r] = "new"

\* C13: request classification.  A request whose path ends in a dot and a
\* recognised static extension is passed on by the catch-all handler: no
\* toggle is read, no engine and no shell responder runs, nothing is sent.
\* Every other path handled by the catch-all handler is a document request:
\* it is never passed on, and it goes to the shell responder or the engine.
C13_Classification ==
    \A r \in Req :
        phase[r] # "new" =>
            LET n == Len(path[r])
                ext == n >= 2 /\ <<path[r][n - 1], path[r][n]>> \in
                                   {<<".", e>> : e \in StaticExts}
            IN  IF ext
                THEN /\ phase[r] = "Passed" /\ resp[r].pass = 1
                     /\ toggle[r] = "notread"
                     /\ renderCalls[r] = 0 /\ ~Bootstrapped(r)
                     /\ resp[r].html = 0 /\ resp[r].shell = 0 /\ resp[r].err = 0
                ELSE /\ phase[r] # "Passed" /\ resp[r].pass = 0
                     /\ toggle[r] = env
                     /\ IF env = "true"
                        THEN renderCalls[r] = 0 /\ phase[r] \in {"ShellCsr", "ShellIndex", "Done"}
                        ELSE renderCalls[r] = 1 /\ phase[r] \in {"Rendering", "Done"}

C13_Witness ==
    \E r, q \in Req :
        /\ path[r] = <<"/", "assets", "/", "logo", ".", "png">>
        /\ phase[r] = "Passed" /\ renderCalls[r] = 0
        /\ path[q] = <<"/", "main", ".", "js", ".", "map">>
        /\ Finished(q) /\ ServerRendered(q)

C15_GetFallback ==
    (probe.called /\ ~hasKey(probe.store, probe.key)) =>
        /\ probe.result = probe.fallback
        /\ probe.after = probe.store

C15_Witness ==
    /\ probe.called
    /\ probe.store = EmptyStore
    /\ probe.key = PRODUCTS_KEY
    /\ probe.fallback = GetDefault(PRODUCTS_KEY)
    /\ probe.result = GetDefault(PRODUCTS_KEY)

\* C16: a render that fetches from the process's own API completes.  No GET
\* of the facade is dispatched to the document handler, a GET still pending
\* can always be routed or answered while the render waits, and every
\* request given to the engine ends with exactly one response, the rendered
\* document or the error.
C16_NestedFetchCompletes ==
    /\ [](\A r \in Req, k \in Keys :
            /\ app[r].docHits[k] = 0
            /\ \A s \in Subscribers :
                  (Rendering(r) /\ app[r].pend[k][s] > 0) =>
                      ENABLED (ApiRoute(r, k, s) \/ ApiRespond(r, k, s)))
    /\ \A r \in Req :
          (phase[r] = "Rendering") ~>
              (Finished(r) /\ resp[r].html + resp[r].err = 1 /\ resp[r].shell = 0)

C16_Witness ==
    \E r \in Req :
        /\ Finished(r) /\ ServerRendered(r) /\ ~Error(r)
        /\ app[r].net[PRODUCTS_KEY] = 1 /\ app[r].ok[PRODUCTS_KEY] = 1
        /\ app[r].ok[ABOUT_KEY] = 1
        /\ DOMAIN Store(r) = Keys

\* a step in which the facade of the running application of context c
\* acted for key k: a call, a subscription or the completion of a GET
FacadeStep(c, k) ==
    /\ app'[c].route # "none"
    /\ \/ app'[c].calls[k] # app[c].calls[k]
       \/ app'[c].net[k] # app[c].net[k]
       \/ app'[c].ok[k] # app[c].ok[k]
       \/ app'[c].fail[k] # app[c].fail[k]

\* C17: store entries are permanent.  No step of the facade removes a key
\* from the store of its context, and none changes the store of the browser.
\* In a browser whose store has key k, the entry is the one the server
\* wrote, every facade call for k returns of(that value) and no GET for k
\* is ever issued.  In a browser started from the static shell the store
\* stays empty, no read is served from it, and every facade call for k
\* returns the live observable: a new GET for each call that is subscribed.
C17_EntriesPermanent ==
    /\ [][\A c \in Ctx, k \in Keys :
            FacadeStep(c, k) =>
               /\ DOMAIN Store(c) \subseteq DOMAIN stores'[StoreOf(c)]
               /\ c = Browser => stores' = stores
               /\ (c = Browser /\ app'[c].calls[k] = app[c].calls[k] + 1) =>
                     IF hasKey(Store(c), k)
                     THEN /\ app'[c].net[k] = app[c].net[k]
                          /\ \/ app'[c].field = OfObs(k, Store(origin)[k])
                             \/ Cached(Store(origin)[k]) \in app'[c].got[k]
                     ELSE \/ /\ app'[c].net[k] = app[c].net[k] + 1
                             /\ \E sb \in Subscribers :
                                   app'[c].pend[k][sb] = app[c].pend[k][sb] + 1
                          \/ app'[c].field = HttpObs(k)]_vars
    /\ [](\A k \in Keys :
            origin # 0 =>
               /\ hasKey(Store(Browser), k) =>
                     /\ ServerRendered(origin)
                     /\ Store(Browser)[k] = Store(origin)[k]
                     /\ app[Browser].net[k] = 0
                     /\ \A o \in app[Browser].got[k] : o = Cached(Store(origin)[k])
               /\ StaticShell(origin) =>
                     /\ Store(Browser) = EmptyStore
                     /\ \A o \in app[Browser].got[k] : o.src # "Cached"
                     /\ app[Browser].net[k] >=
                           app[Browser].ok[k] + app[Browser].fail[k])

C17_Witness ==
    /\ origin # 0 /\ StaticShell(origin)
    /\ app[Browser].calls[PRODUCTS_KEY] = 2
    /\ app[Browser].net[PRODUCTS_KEY] = 2
    /\ app[Browser].ok[PRODUCTS_KEY] = 2
    /\ app[Browser].got[PRODUCTS_KEY] = {Live(ProductsPayload)}
    /\ Store(Browser) = EmptyStore

\* C18: a failed server-side fetch is not carried to the client.  When the
\* fetch of key k failed in the render of request r and none succeeded, k
\* is not in the store of r nor in the document; the browser that loaded the
\* document has no entry for k, its facade calls for k return the live
\* observable and never a stored value, and after the page component's
\* first call the GETs for the resource are one by the server and one by
\* the browser.
C18_FailureNotTransferred ==
    \A r \in Req, k \in Keys :
        (app[r].fail[k] >= 1 /\ app[r].ok[k] = 0) =>
            /\ ~hasKey(Store(r), k)
            /\ k \notin DocKeys(doc[r])
            /\ origin = r =>
                  /\ ~hasKey(Store(Browser), k)
                  /\ \A o \in app[Browser].got[k] : o.src \in {"Live", "Fallback"}
                  /\ app[Browser].calls[k] >= 1 =>
                        (app[Browser].net[k] >= 1 \/ app[Browser].field = HttpObs(k))
                  /\ (app[Browser].calls[k] = 1 /\ app[Browser].route = "products"
                        /\ k = PRODUCTS_KEY) =>
                        (app[r].net[k] = 1 /\ app[Browser].net[k] = 1)

C18_Witness ==
    \E r \in Req :
        /\ origin = r /\ ServerRendered(r)
        /\ app[r].fail[PRODUCTS_KEY] = 1 /\ app[r].net[PRODUCTS_KEY] = 1
        /\ doc[r] = <<>>
        /\ app[Browser].calls[PRODUCTS_KEY] = 1
        /\ app[Browser].net[PRODUCTS_KEY] = 1
        /\ app[Browser].got[PRODUCTS_KEY] = {Live(ProductsPayload)}

\* C19: ProductsComponent.  The error field is null in every state, and
\* once its observer has received an outcome of the facade (a stored value,
\* a fetched value or the fallback of a failed fetch) loading is false;
\* every notification to the observer is a next notification, which sets
\* loading to false and error to null.
C19_ErrorNullLoadingFalse ==
    /\ [](\A c \in Ctx :
            /\ app[c].error = "null"
            /\ app[c].compGot # {} => ~app[c].loading
            /\ \A o \in app[c].compGot : o.src \in {"Cached", "Live", "Fallback"}
            /\ (app[c].route = "products" /\ app[c].loading) =>
                   (app[c].pend[PRODUCTS_KEY]["comp"] = 1 \/ ~Active(c)))
    /\ [][\A c \in Ctx :
            (app'[c].route = "products" /\ app'[c].compGot # app[c].compGot /\ app'[c].compGot # {}) =>
                (~app'[c].loading /\ app'[c].error = "null")]_vars

C19_Witness ==
    \E r \in Req :
        /\ origin = r
        /\ app[r].fail[PRODUCTS_KEY] = 1
        /\ app[Browser].route = "products"
        /\ app[Browser].compGot = {Fallback(EmptyProducts)}
        /\ ~app[Browser].loading /\ app[Browser].error = "null"

====
